---- MODULE Spec2Model ----
(***************************************************************************)
(* State-machine model of the cache and failure-recovery layer of          *)
(* global-publish: core/cache_manager.py (CacheManager), the publish and   *)
(* retry loops of main.py (GlobalPublisher) and the publish loop of        *)
(* core/publishing_engine.py (PublishingEngine).                           *)
(*                                                                         *)
(* Time is an integer number of clock ticks, TicksPerSec ticks to the      *)
(* second.  datetime.now() is a read of the variable clock; a method that  *)
(* reads the clock several times may see it advance between the reads,     *)
(* the reads of one call lying less than one second apart.                 *)
(***************************************************************************)
EXTENDS Integers, Sequences, FiniteSets, TLC

\* ---------------------------------------------------------------- bounds
TicksPerSec == 2
MaxAttempts == 4
MaxDeliver == 4
MaxPuts == 2
MaxRuns == 2
MaxRecs == 2
MaxTweets == 3
MaxSweeps == 2

\* ------------------------------------------------------- program constants
DefaultMaxRetries == 3
DefaultMaxLength == 60

Minute == 60 * TicksPerSec
Hour == 60 * Minute

Platforms == {"twitter"}
\* the artifacts handed to publish_content or save_failed_post, in this order
Titles == <<"a1", "a2">>
\* the error of a first delivery, and the errors of a retry
FirstErrors == {"timeout"}
Errors == {"rejected"}
\* None and the empty string: both falsy in `if new_error:`
NoError == ""
NoId == <<>>

VARIABLES
    clock,         \* the wall clock, in ticks
    failed_files,  \* cache/failed_posts/<id>.json : id -> stored JSON data
    retry_ready,   \* the list get_retry_ready_posts returned (the sweep's work list)
    sweeping,      \* a retry_failed_posts loop is under way
    delivered,     \* history: artifact title -> number of post_content calls
    retried_ok,    \* history: artifact titles whose retry delivery succeeded
    n_artifacts,   \* artifacts handed to a publish or save so far
    retries_recorded, \* history: id -> update_failed_post_attempt calls that found it
    calc,          \* a call of _calculate_next_retry: its inputs and its result
    last,          \* history: the operation that acted last
    memory_cache,  \* self._memory_cache : memory key -> CacheEntry
    dna_files,     \* cache/dna/<cache_key>.json : cache key -> stored JSON data
    content_files, \* cache/content/<cache_key>.json : cache key -> stored JSON data
    latest_dna,    \* history: cache key -> the latest cache_content_dna for it
    latest_content, \* history: cache key -> the latest cache_platform_content for it
    n_puts,        \* cache_content_dna and cache_platform_content calls so far
    got,           \* history: the cache operation that acted last, and its result
    run,           \* a run of main: generate_platform_content, then publish_content
    rec,           \* a use of PlatformRecommender: the response, the calls, their results
    hn,            \* a use of HackerNewsValidator: the title, the profile, the result
    thread,        \* a Twitter thread: its delivery, the tweets the platform accepted
    conc           \* concurrent retry sweeps: the position and the locals of each

retry_vars == <<failed_files, retry_ready, sweeping, delivered, retried_ok,
                n_artifacts, retries_recorded, calc, last>>

cache_vars == <<memory_cache, dna_files, content_files, latest_dna, latest_content,
                n_puts, got>>

side_vars == <<hn, thread, conc>>

run_vars == <<run, rec, side_vars>>

vars == <<clock, retry_vars, cache_vars, run_vars>>

\* ------------------------------------------------------------- helpers
Min(a, b) == IF a <= b THEN a ELSE b

SeqToSet(s) == {s[i] : i \in 1..Len(s)}

\* every ordering of a finite set as a sequence (glob() yields files in any order)
Orderings(S) ==
    {s \in [1..Cardinality(S) -> S] : \A i, j \in 1..Cardinality(S) : i # j => s[i] # s[j]}

\* the clock reads of one call: n reads, the first at the current clock, each
\* at or after the one before it, all less than one second apart
ClockReads(n) ==
    {r \in [1..n -> clock..(clock + TicksPerSec - 1)] :
        /\ r[1] = clock
        /\ \A i \in 1..(n - 1) : r[i] <= r[i + 1]}

\* a PlatformContent: platform, title (standing for title, body and metadata)
\* and the validity flag of the attached ValidationResult
Artifact(platform, title, valid) ==
    [platform |-> platform, title |-> title, valid |-> valid]

\* datetime.strftime('%Y%m%d_%H%M%S'): the time truncated to whole seconds
strftime(t) == t \div TicksPerSec

\* f"{platform}_{...strftime('%Y%m%d_%H%M%S')}"
FailedId(platform, t) == <<platform, strftime(t)>>

\* the table of _calculate_next_retry, in minutes
delays == <<1, 5, 30>>

\* a faulty backoff: the index wraps round the table instead of stopping at its end
delay_minutes_wrap(attempt_count) ==
    delays[((attempt_count - 1) % Len(delays)) + 1]

\* delay_minutes of _calculate_next_retry (Python index delay_index is 0-based)
delay_minutes(attempt_count) ==
    LET delay_index == Min(attempt_count - 1, Len(delays) - 1)
    IN  delays[delay_index + 1]

\* _calculate_next_retry(attempt_count), its datetime.now() reading `now`
calculate_next_retry(attempt_count, now) ==
    now + delay_minutes(attempt_count) * Minute

\* a faulty publish loop: an artifact is delivered whatever its validation says
SkipsDelivery_never(content) == FALSE

\* `if not content.validation.is_valid:` of the two publish loops
SkipsDelivery(content) == ~content.valid

\* the "content" object save_failed_post writes: the validation is not stored
StoredContent(content) ==
    [platform |-> content.platform, title |-> content.title]

\* the PlatformContent _load_failed_posts rebuilds: validation is_valid=True
LoadedContent(data) ==
    [platform |-> data.platform, title |-> data.title, valid |-> TRUE]

\* the FailedPost _load_failed_posts rebuilds from one file
LoadFailedPost(data) ==
    [platform      |-> data.platform,
     content       |-> LoadedContent(data.content),
     error         |-> data.error,
     attempt_count |-> data.attempt_count,
     created_at    |-> data.created_at,
     last_attempt  |-> data.last_attempt,
     next_retry    |-> data.next_retry,
     max_retries   |-> data.max_retries]

\* _load_failed_posts: every file of failed_posts_dir, loaded
load_failed_posts == {LoadFailedPost(failed_files[id]) : id \in DOMAIN failed_files}

\* a faulty readiness test: a record is ready only after its next_retry
IsRetryReady_late(post, now) ==
    post.attempt_count < post.max_retries /\ now > post.next_retry

\* a faulty readiness test: a record at max_retries is still ready
IsRetryReady_inclusive(post, now) ==
    post.attempt_count <= post.max_retries /\ now >= post.next_retry

\* the test of get_retry_ready_posts
IsRetryReady(post, now) ==
    post.attempt_count < post.max_retries /\ now >= post.next_retry

\* a faulty save: the first retry is scheduled with the delay of the second
failed_data_second(platform, content, error, reads) ==
    [id            |-> FailedId(platform, reads[4]),
     platform      |-> platform,
     content       |-> StoredContent(content),
     error         |-> error,
     attempt_count |-> 1,
     created_at    |-> reads[1],
     last_attempt  |-> reads[2],
     next_retry    |-> calculate_next_retry(2, reads[3]),
     max_retries   |-> DefaultMaxRetries]

\* the JSON data save_failed_post writes; reads = <<created_at, last_attempt,
\* the read of _calculate_next_retry, the read for the id>>
failed_data(platform, content, error, reads) ==
    [id            |-> FailedId(platform, reads[4]),
     platform      |-> platform,
     content       |-> StoredContent(content),
     error         |-> error,
     attempt_count |-> 1,
     created_at    |-> reads[1],
     last_attempt  |-> reads[2],
     next_retry    |-> calculate_next_retry(1, reads[3]),
     max_retries   |-> DefaultMaxRetries]

\* save_failed_post: open(failed_file, 'w') creates the file or replaces it
save_failed_post(files, platform, content, error, reads) ==
    LET data == failed_data(platform, content, error, reads)
    IN  (data.id :> data) @@ files

\* a faulty update: the error is replaced also when none is supplied
updated_data_clobber(data, new_error, reads) ==
    LET count == data.attempt_count + 1
    IN  [data EXCEPT !.attempt_count = count,
                     !.last_attempt  = reads[1],
                     !.error         = new_error,
                     !.next_retry    = calculate_next_retry(count, reads[2])]

\* the data update_failed_post_attempt writes back; reads = <<last_attempt,
\* the read of _calculate_next_retry>>
updated_data(data, new_error, reads) ==
    LET count == data.attempt_count + 1
    IN  [data EXCEPT !.attempt_count = count,
                     !.last_attempt  = reads[1],
                     !.error         = IF new_error # NoError THEN new_error ELSE @,
                     !.next_retry    = calculate_next_retry(count, reads[2])]

\* update_failed_post_attempt: the files after the call
update_failed_post_attempt(files, failed_id, new_error, reads) ==
    IF failed_id \in DOMAIN files
    THEN [files EXCEPT ![failed_id] = updated_data(files[failed_id], new_error, reads)]
    ELSE files

\* remove_failed_post: the files after the call
remove_failed_post(files, failed_id) ==
    [id \in DOMAIN files \ {failed_id} |-> files[id]]

NoOp ==
    [op |-> "none", id |-> NoId, title |-> "", outcome |-> "none", error |-> NoError,
     ret |-> FALSE, saves |-> 0, valid |-> TRUE]

NoCalc == [attempt_count |-> 0, now |-> 0, next_retry |-> 0 - 1]

\* the history of the recorded retries, after a save, an update, a removal
SavedCount(id) == (id :> 0) @@ retries_recorded
UpdatedCount(id) ==
    IF id \in DOMAIN failed_files
    THEN [retries_recorded EXCEPT ![id] = @ + 1]
    ELSE retries_recorded
RemovedCount(id) == [i \in DOMAIN retries_recorded \ {id} |-> retries_recorded[i]]

\* ------------------------------------------------ the two cache tiers
\* the source texts whose DNA is cached, and the DNA values
Contents == {"c1", "c2"}
Dnas == {"d1", "d2"}
\* the ttl_hours a caller passes: past, zero, future
TTLs == {0 - 1, 0, 1}

\* _get_cache_key(content): the first 12 hex digits of md5(content), a table
\* without collisions on Contents
get_cache_key(content) == IF content = "c1" THEN "0cc1" ELSE "0cc2"

\* f"dna_{cache_key}"
MemoryKey(cache_key) == <<"dna", cache_key>>

\* f"{platform}_{content_dna_key}"
ContentKey(platform, content_dna_key) == <<platform, content_dna_key>>

\* a file that json.load or the reading of its keys rejects (truncated by a
\* failed write, say); in the get methods the `except Exception` branch
Unparseable == [garbage |-> TRUE]

Parses(cache_data) == cache_data # Unparseable

\* a faulty expiry test: an entry is still served at its expiry time
Unexpired_inclusive(now, expires_at) == now <= expires_at

\* the test `datetime.now() < expires_at` of the two get methods
Unexpired(now, expires_at) == now < expires_at

\* the "content" object cache_platform_content writes: validation included
CachedContent(content) ==
    [platform |-> content.platform, title |-> content.title, validation |-> content.valid]

\* the PlatformContent get_cached_platform_content rebuilds
RebuiltContent(content_data) ==
    Artifact(content_data.platform, content_data.title, content_data.validation)

\* f without the key k (unlink of a file, del of a dict entry)
Without(f, k) == [x \in DOMAIN f \ {k} |-> f[x]]

\* cache_content_dna: the file written and the CacheEntry added, now = the
\* datetime.now() of expires_at
dna_cache_data(cache_key, dna, ttl_hours, now) ==
    [content_hash |-> cache_key, dna |-> dna, expires_at |-> now + ttl_hours * Hour]

\* a faulty put: the memory entry outlives the file by an hour
dna_cache_entry_longer(cache_key, dna, ttl_hours, now) ==
    [key |-> cache_key, data |-> dna, expires_at |-> now + (ttl_hours + 1) * Hour]

dna_cache_entry(cache_key, dna, ttl_hours, now) ==
    [key |-> cache_key, data |-> dna, expires_at |-> now + ttl_hours * Hour]

\* a faulty get: a file hit is returned but not promoted into the memory cache
get_cached_dna_unpromoted(memory, files, content, now) ==
    LET cache_key == get_cache_key(content)
        memory_key == MemoryKey(cache_key)
        in_memory == memory_key \in DOMAIN memory
        memory_hit == in_memory /\ Unexpired(now, memory[memory_key].expires_at)
        evicted == IF in_memory THEN Without(memory, memory_key) ELSE memory
        in_file == cache_key \in DOMAIN files
        file_hit == in_file /\ Parses(files[cache_key])
                            /\ Unexpired(now, files[cache_key].expires_at)
    IN  IF memory_hit
        THEN [ret |-> <<memory[memory_key].data>>, tier |-> "memory",
              memory |-> memory, files |-> files]
        ELSE IF file_hit
        THEN [ret |-> <<files[cache_key].dna>>, tier |-> "file",
              memory |-> evicted, files |-> files]
        ELSE [ret |-> <<>>,
              tier |-> IF in_file /\ ~Parses(files[cache_key]) THEN "error" ELSE "none",
              memory |-> evicted,
              files |-> IF in_file THEN Without(files, cache_key) ELSE files]

\* get_cached_dna at the clock reading now: the value returned (<<>> for None),
\* where it came from ("error": the file did not parse)
\* and the two tiers after the call
get_cached_dna(memory, files, content, now) ==
    LET cache_key == get_cache_key(content)
        memory_key == MemoryKey(cache_key)
        in_memory == memory_key \in DOMAIN memory
        memory_hit == in_memory /\ Unexpired(now, memory[memory_key].expires_at)
        \* an expired entry is deleted from the memory cache
        evicted == IF in_memory THEN Without(memory, memory_key) ELSE memory
        in_file == cache_key \in DOMAIN files
        file_hit == in_file /\ Parses(files[cache_key])
                            /\ Unexpired(now, files[cache_key].expires_at)
    IN  IF memory_hit
        THEN [ret |-> <<memory[memory_key].data>>, tier |-> "memory",
              memory |-> memory, files |-> files]
        ELSE IF file_hit
        THEN [ret    |-> <<files[cache_key].dna>>,
              tier   |-> "file",
              memory |-> (memory_key :>
                            [key        |-> cache_key,
                             data       |-> files[cache_key].dna,
                             expires_at |-> files[cache_key].expires_at]) @@ evicted,
              files  |-> files]
        ELSE [ret    |-> <<>>,
              tier   |-> IF in_file /\ ~Parses(files[cache_key]) THEN "error" ELSE "none",
              memory |-> evicted,
              files  |-> IF in_file THEN Without(files, cache_key) ELSE files]

\* cache_platform_content: the file written
content_cache_data(content_dna_key, platform, content, ttl_hours, now) ==
    [platform        |-> platform,
     content_dna_key |-> content_dna_key,
     content         |-> CachedContent(content),
     expires_at      |-> now + ttl_hours * Hour]

\* a faulty get: a file that has expired or does not parse is left in place
get_cached_platform_content_keeps(files, content_dna_key, platform, now) ==
    LET cache_key == ContentKey(platform, content_dna_key)
        in_file == cache_key \in DOMAIN files
    IN  IF in_file /\ Parses(files[cache_key])
                   /\ Unexpired(now, files[cache_key].expires_at)
        THEN [ret |-> <<RebuiltContent(files[cache_key].content)>>, tier |-> "file",
              files |-> files]
        ELSE [ret   |-> <<>>,
              tier  |-> IF in_file /\ ~Parses(files[cache_key]) THEN "error" ELSE "none",
              files |-> files]

\* get_cached_platform_content at the clock reading now: the value returned
\* (<<>> for None), where it came from ("error": the file did not parse) and
\* the content files after the call
get_cached_platform_content(files, content_dna_key, platform, now) ==
    LET cache_key == ContentKey(platform, content_dna_key)
        in_file == cache_key \in DOMAIN files
    IN  IF in_file /\ Parses(files[cache_key])
                   /\ Unexpired(now, files[cache_key].expires_at)
        THEN [ret |-> <<RebuiltContent(files[cache_key].content)>>, tier |-> "file",
              files |-> files]
        ELSE [ret   |-> <<>>,
              tier  |-> IF in_file /\ ~Parses(files[cache_key]) THEN "error" ELSE "none",
              files |-> IF in_file THEN Without(files, cache_key) ELSE files]

\* a faulty cleanup: an entry that expires at the reading now is kept
ExpiredKeys_strict(f, now) == {k \in DOMAIN f : ~Parses(f[k]) \/ now > f[k].expires_at}

\* cleanup_expired_cache: the keys it removes from a tier at the reading now,
\* those of the expired entries and those of the files that do not parse
ExpiredKeys(f, now) == {k \in DOMAIN f : ~Parses(f[k]) \/ now >= f[k].expires_at}

Keep(f, now) == [k \in DOMAIN f \ ExpiredKeys(f, now) |-> f[k]]

NoGet ==
    [op |-> "none", key |-> "", platform |-> "", ret |-> <<>>, tier |-> "none",
     removed |-> 0]

InitCache ==
    /\ memory_cache = <<>>
    /\ dna_files = <<>>
    /\ content_files = <<>>
    /\ latest_dna = <<>>
    /\ latest_content = <<>>
    /\ n_puts = 0
    /\ got = NoGet

\* ------------------------------------------------------- a run of main
\* the platforms argument of a run: two known platforms whose adapters take
\* the api_key, one unknown name, one known platform whose adapter does not
Requested == <<"twitter", "myspace", "hackernews", "devto">>

\* the keys of GlobalPublisher.platforms
KnownPlatforms == {"hackernews", "reddit", "twitter", "medium", "devto", "peerlist"}

\* the adapters whose generate_content takes (content_dna, api_key)
TakesApiKey == {"devto", "medium", "reddit", "twitter"}

\* the adapters that define post_content
HasPostContent == {"devto", "medium", "twitter"}

\* what the completion call gives: a JSON object, one in a ```json fence, one
\* with raw newlines in its strings, one whose text is too long for the
\* platform, text that is not JSON, or an exception
LlmResponses == {"json", "fenced", "newlines", "long_json", "text", "raise"}

\* the empty dict
Empty == <<>>

\* dict.get(key, default)
Get(d, key, default) == IF key \in DOMAIN d THEN d[key] ELSE default

\* _parse_json_response: the fence is stripped, json.loads is tried, then
\* json.loads after fix_string_newlines, and {} is returned when both fail
Unfenced(content) == IF content = "fenced" THEN "json" ELSE content

fix_string_newlines(content) == IF content = "newlines" THEN "json" ELSE content

LoadsOk(content) == content \in {"json", "long_json"}

Loads(content) ==
    IF content = "json" THEN [thread |-> <<"tweet">>] ELSE [thread |-> <<"long tweet">>]

parse_json_response(content) ==
    LET text == Unfenced(content)
    IN  IF LoadsOk(text) THEN Loads(text)
        ELSE IF LoadsOk(fix_string_newlines(text)) THEN Loads(fix_string_newlines(text))
        ELSE Empty

\* a faulty _make_llm_call: a second completion call after a failed one, and
\* the text of the response in place of {}
make_llm_call_again(response) ==
    [calls  |-> IF response \in {"raise", "text"} THEN 2 ELSE 1,
     result |-> IF response \in {"raise", "text"} THEN [thread |-> <<"tweet">>]
                ELSE parse_json_response(response)]

\* _make_llm_call: one completion call; its exception, and text that does not
\* parse, give {}
make_llm_call(response) ==
    [calls  |-> 1,
     result |-> IF response = "raise" THEN Empty ELSE parse_json_response(response)]

ValidationResult(is_valid, errors) == [is_valid |-> is_valid, errors |-> errors]

\* the title of the artifact of a platform
RunTitle(platform) == IF platform = "twitter" THEN Titles[1] ELSE Titles[2]

\* adapter.generate_content: the PlatformContent built from the result of the
\* LLM call, with the ValidationResult it is given there
generate_content(platform, result) ==
    [platform   |-> platform,
     title      |-> RunTitle(platform),
     thread     |-> Get(result, "thread", <<>>),
     validation |-> ValidationResult(platform = "reddit", <<>>)]

\* adapter.validate_content: errors for missing and for too long content
validate_content(content) ==
    LET errors == IF content.thread = <<>> THEN <<"nothing generated">>
                  ELSE IF "long tweet" \in SeqToSet(content.thread) THEN <<"too long">>
                  ELSE <<>>
    IN  ValidationResult(Len(errors) = 0, errors)

\* faulty loops: no exception of an adapter is caught
Caught_nothing(exception) == FALSE

\* `except Exception` of the two loops catches what the adapters raise
Caught(exception) == TRUE

\* what the environment does in one pass of the generation loop: where an
\* exception is raised (in generate_content before the LLM call, in
\* validate_content, nowhere) and what the LLM call gives
GenBehaviours ==
    {[fault |-> "generate", llm |-> "none"]}
        \cup {[fault |-> f, llm |-> l] : f \in {"none", "validate"}, l \in LlmResponses}

\* one pass of the loop of generate_platform_content for a known platform:
\* the exception raised, if any, the artifact produced, the LLM calls made
\* and the value generate_content returned
generate_one(platform, behaviour) ==
    LET llm == make_llm_call(behaviour.llm)
        raw == generate_content(platform, llm.result)
        none == [raised |-> "", content |-> <<>>, calls |-> 0, raw |-> <<>>, result |-> <<>>]
    IN  IF platform \notin TakesApiKey
        THEN \* generate_content(content_dna, api_key) on a one-argument method
             [none EXCEPT !.raised = "TypeError"]
        ELSE IF behaviour.fault = "generate"
        THEN [none EXCEPT !.raised = "Exception"]
        ELSE IF behaviour.fault = "validate"
        THEN [none EXCEPT !.raised = "Exception", !.calls = llm.calls, !.raw = <<raw>>,
                          !.result = <<llm.result>>]
        ELSE [none EXCEPT !.content = <<[raw EXCEPT !.validation = validate_content(raw)]>>,
                          !.calls = llm.calls,
                          !.raw = <<raw>>,
                          !.result = <<llm.result>>]

\* ------------------------------------------------- PlatformRecommender
\* the keys of PLATFORM_PROFILES, in the order of the dict
PLATFORM_PROFILES ==
    <<"hackernews", "twitter", "reddit", "medium", "devto", "linkedin",
      "producthunt", "indiehackers", "substack", "hashnode", "lobsters", "peerlist">>

\* JSON texts, by what json.loads makes of them: text that is not JSON, a
\* number, an object with its members, an array with its items
Invalid == [type |-> "invalid"]
Number == [type |-> "number"]
Object(members) == [type |-> "object", members |-> members]
Array(items) == [type |-> "array", items |-> items]

SeqsUpTo(S, n) == UNION {[1..k -> S] : k \in 0..n}

\* the members an item of the array may have: "platform" and "fit", either
\* of them missing
ItemMembers ==
    {(IF po = <<>> THEN <<>> ELSE [platform |-> po[1]])
        @@ (IF fo = <<>> THEN <<>> ELSE [fit |-> fo[1]]) :
        po \in {<<>>, <<"twitter">>, <<"hackernews">>},
        fo \in {<<>>, <<"strong">>, <<"moderate">>, <<"weak">>, <<"skip">>}}

JsonItems == {Object(m) : m \in ItemMembers} \cup {Number}

JsonDocs ==
    {Invalid, Number, Object(<<>>), Object([platform |-> "twitter"])}
        \cup {Array(items) : items \in SeqsUpTo(JsonItems, MaxRecs)}

\* the responses of the LLM: a JSON text alone, one in a ``` fence with prose
\* around it, one with prose around it and no fence
LlmRecommendations == [wrap : {"bare", "fenced", "prose"}, doc : JsonDocs]

\* re.search of the fence and group(1).strip(): the text inside the fence,
\* the whole response when there is none
FenceStripped(llm_response) ==
    IF llm_response.wrap = "prose" THEN Invalid ELSE llm_response.doc

PlatformRecommendation(platform, fit, reason) ==
    [platform |-> platform, fit |-> fit, reason |-> reason]

\* parse_recommendations: json.loads of the text; JSONDecodeError gives one
\* moderate recommendation per profile; item.get on what is not a dict, and
\* iterating what is not iterable, raise
parse_recommendations(llm_response) ==
    LET data == FenceStripped(llm_response)
        returns(recommendations) == [raised |-> "", ret |-> recommendations]
        raises(exception) == [raised |-> exception, ret |-> <<>>]
    IN  IF data.type = "invalid"
        THEN returns([i \in 1..Len(PLATFORM_PROFILES) |->
                        PlatformRecommendation(PLATFORM_PROFILES[i], "moderate",
                                               "Failed to parse, defaulting")])
        ELSE IF data.type = "number" THEN raises("TypeError")
        ELSE IF data.type = "object"
        THEN \* the items are the keys, which are str
             IF DOMAIN data.members = {} THEN returns(<<>>) ELSE raises("AttributeError")
        ELSE IF \E i \in 1..Len(data.items) : data.items[i].type # "object"
        THEN raises("AttributeError")
        ELSE returns([i \in 1..Len(data.items) |->
                        PlatformRecommendation(Get(data.items[i].members, "platform", ""),
                                               Get(data.items[i].members, "fit", "skip"),
                                               Get(data.items[i].members, "reason", ""))])

\* a faulty filter: weak fits are generated for as well
get_platforms_to_generate_weak(recommendations) ==
    LET kept == SelectSeq(recommendations, LAMBDA r : r.fit # "skip")
    IN  [i \in 1..Len(kept) |-> kept[i].platform]

\* get_platforms_to_generate: [r.platform for r in recommendations if r.fit in
\* ("strong", "moderate")]
get_platforms_to_generate(recommendations) ==
    LET kept == SelectSeq(recommendations, LAMBDA r : r.fit \in {"strong", "moderate"})
    IN  [i \in 1..Len(kept) |-> kept[i].platform]

\* get_skipped_platforms: [r for r in recommendations if r.fit == "skip"]
get_skipped_platforms(recommendations) ==
    SelectSeq(recommendations, LAMBDA r : r.fit = "skip")

NoRec ==
    [phase |-> "idle", response |-> <<>>, raised |-> "", recommendations |-> <<>>,
     to_generate |-> <<>>, skipped |-> <<>>]

\* ------------------------------------------------- HackerNewsValidator
\* a title, by what _validate_title looks at: its length, whether it starts
\* with "Show HN:", whether it holds a forbidden word of the profile, an emoji
HnTitle(length, show_hn, forbidden, emoji) ==
    [length |-> length, show_hn |-> show_hn, forbidden |-> forbidden, emoji |-> emoji]

\* content_rules.title.max_length of the profile: missing, or configured
MaxLengthRules == {<<>>, <<80>>}

\* rules.get('max_length', 60)
max_length_of(rules) == IF rules = <<>> THEN DefaultMaxLength ELSE rules[1]

\* the lengths of the titles validated: "Show HN:" alone, around the limit,
\* and 5 over it
TitleLengths(max_length) ==
    {8, max_length - 1, max_length, max_length + 1, max_length + 5}

\* a faulty length rule: a title of exactly the maximum length is too long
TooLong_inclusive(length, max_length) == length >= max_length

\* `if len(title) > max_length:`
TooLong(length, max_length) == length > max_length

\* f"Title too long: {len(title)}/{max_length} chars"
TitleTooLong(length, max_length) ==
    [kind |-> "too_long", length |-> length, max_length |-> max_length]

OtherError(kind) == [kind |-> kind, length |-> 0, max_length |-> 0]

\* the errors of _validate_title, in the order they are appended
validate_title(title, rules) ==
    LET max_length == max_length_of(rules)
    IN  (IF TooLong(title.length, max_length)
         THEN <<TitleTooLong(title.length, max_length)>> ELSE <<>>)
        \o (IF title.forbidden THEN <<OtherError("forbidden_word")>> ELSE <<>>)
        \o (IF ~title.show_hn THEN <<OtherError("not_show_hn")>> ELSE <<>>)
        \o (IF title.emoji THEN <<OtherError("emoji")>> ELSE <<>>)

\* HackerNewsValidator.validate: the errors are those of the title, the body
\* adds warnings and suggestions only
validate(title, rules) ==
    LET errors == validate_title(title, rules)
    IN  ValidationResult(Len(errors) = 0, errors)

NoValidation == [phase |-> "idle", title |-> <<>>, rules |-> <<>>, result |-> <<>>]

\* ------------------------------------------------------ a Twitter thread
\* TwitterAdapter.post_content on a thread of MaxTweets tweets: the tweets
\* are posted in sequence from the first; fail_at is the tweet whose request
\* is not answered with 201 or raises, 0 when all are accepted. accepted
\* counts, for every tweet, the times the platform accepted it.
post_content(accepted, fail_at) ==
    LET last_posted == IF fail_at = 0 THEN MaxTweets ELSE fail_at - 1
    IN  [success  |-> fail_at = 0,
         accepted |-> [i \in 1..MaxTweets |->
                          IF i <= last_posted THEN accepted[i] + 1 ELSE accepted[i]]]

NoThread ==
    [phase |-> "new", accepted |-> [i \in 1..MaxTweets |-> 0], failed_at |-> <<>>,
     retries |-> 0]

\* ------------------------------------------- concurrent retry sweeps
\* two runs of retry_failed_posts on one cache directory
Sweepers == {"s1", "s2"}

\* pc: where the sweep stands; listed: its retry_ready list; data: the data
\* update_failed_post_attempt loaded and changed; completed: the calls of
\* update_failed_post_attempt that returned True; lists: the sweeps started;
\* torn: whether a load met a file between the open(.., 'w') and the end of
\* the json.dump of a writer, and whether it unlinked it
NoSweeps ==
    [pc        |-> [p \in Sweepers |-> "idle"],
     listed    |-> [p \in Sweepers |-> <<>>],
     data      |-> [p \in Sweepers |-> <<>>],
     completed |-> 0,
     lists     |-> 0,
     torn      |-> "none"]

\* _load_failed_posts: the files that json.load rejects are unlinked
Loadable(files) == [id \in {x \in DOMAIN files : Parses(files[x])} |-> files[id]]

NoRun ==
    [phase |-> "idle", pos |-> 0, runs |-> 0, order |-> <<>>, generated |-> <<>>,
     seen |-> <<>>, raw |-> <<>>, result |-> <<>>, results |-> <<>>, posted |-> <<>>,
     calls |-> [p \in SeqToSet(Requested) |-> 0]]

InitRun ==
    /\ run = NoRun
    /\ rec = NoRec
    /\ hn = NoValidation
    /\ thread = NoThread
    /\ conc = NoSweeps

\* ---------------------------------------------------------------- Init
Init ==
    /\ clock = 0
    /\ failed_files = <<>>
    /\ retry_ready = <<>>
    /\ sweeping = FALSE
    /\ delivered = [t \in SeqToSet(Titles) |-> 0]
    /\ retried_ok = {}
    /\ n_artifacts = 0
    /\ retries_recorded = <<>>
    /\ calc = NoCalc
    /\ last = NoOp
    /\ InitCache
    /\ InitRun

\* ------------------------------------------- time passing between calls
\* The clock is compared only with next_retry; time jumps to instants around
\* the deadlines of the stored records.
Deadlines == {failed_files[id].next_retry : id \in DOMAIN failed_files}

AdvanceTo(offsets) ==
    /\ \E d \in Deadlines, e \in offsets : d + e > clock /\ clock' = d + e
    /\ last' = NoOp
    /\ retry_ready' = IF sweeping THEN retry_ready ELSE <<>>
    /\ UNCHANGED <<failed_files, sweeping, delivered, retried_ok, n_artifacts,
                   retries_recorded, calc>>
    /\ UNCHANGED cache_vars
    /\ UNCHANGED run_vars

\* ------------------------------------- CacheManager, called directly
\* CacheManager.save_failed_post(platform, content, error)
SaveFailedPost ==
    /\ n_artifacts = 0
    /\ \E platform \in Platforms, error \in FirstErrors, reads \in ClockReads(4) :
        LET content == Artifact(platform, Titles[n_artifacts + 1], TRUE)
        IN  /\ failed_files' = save_failed_post(failed_files, platform, content, error, reads)
            /\ clock' = reads[4]
            /\ last' = [NoOp EXCEPT !.op = "save",
                                    !.id = FailedId(platform, reads[4]),
                                    !.title = content.title,
                                    !.error = error,
                                    !.saves = 1]
            /\ retries_recorded' = SavedCount(FailedId(platform, reads[4]))
    /\ n_artifacts' = n_artifacts + 1
    /\ retry_ready' = <<>>
    /\ UNCHANGED <<sweeping, delivered, retried_ok, calc>>
    /\ UNCHANGED cache_vars
    /\ UNCHANGED run_vars

\* CacheManager.get_retry_ready_posts()
GetRetryReadyPosts ==
    /\ \E listing \in Orderings({post \in load_failed_posts : IsRetryReady(post, clock)}) :
        retry_ready' = listing
    /\ last' = [NoOp EXCEPT !.op = "list"]
    /\ UNCHANGED <<clock, failed_files, sweeping, delivered, retried_ok, n_artifacts,
                   retries_recorded, calc>>
    /\ UNCHANGED cache_vars
    /\ UNCHANGED run_vars

\* the ids a caller may pass: those stored, and one that is not
SomeIds == DOMAIN failed_files \cup {FailedId("twitter", 0 - TicksPerSec)}

\* CacheManager.update_failed_post_attempt(failed_id, new_error)
UpdateFailedPostAttempt ==
    /\ \E failed_id \in SomeIds, new_error \in Errors \cup {NoError}, reads \in ClockReads(2) :
        /\ failed_id \in DOMAIN failed_files =>
               failed_files[failed_id].attempt_count < MaxAttempts
        /\ failed_files' = update_failed_post_attempt(failed_files, failed_id, new_error, reads)
        /\ clock' = IF failed_id \in DOMAIN failed_files THEN reads[2] ELSE clock
        /\ last' = [NoOp EXCEPT !.op = "update",
                                !.id = failed_id,
                                !.error = new_error,
                                !.ret = (failed_id \in DOMAIN failed_files)]
        /\ retries_recorded' = UpdatedCount(failed_id)
    /\ retry_ready' = <<>>
    /\ UNCHANGED <<sweeping, delivered, retried_ok, n_artifacts, calc>>
    /\ UNCHANGED cache_vars
    /\ UNCHANGED run_vars

\* CacheManager.remove_failed_post(failed_id)
RemoveFailedPost ==
    /\ \E failed_id \in SomeIds :
        /\ failed_files' = remove_failed_post(failed_files, failed_id)
        /\ last' = [NoOp EXCEPT !.op = "remove",
                                !.id = failed_id,
                                !.ret = (failed_id \in DOMAIN failed_files)]
        /\ retries_recorded' = RemovedCount(failed_id)
    /\ retry_ready' = <<>>
    /\ UNCHANGED <<clock, sweeping, delivered, retried_ok, n_artifacts, calc>>
    /\ UNCHANGED cache_vars
    /\ UNCHANGED run_vars

\* time passes between two calls: to any instant within a second of a deadline
AdvanceFine == AdvanceTo((0 - TicksPerSec)..TicksPerSec)

NextApi ==
    \/ SaveFailedPost
    \/ GetRetryReadyPosts
    \/ UpdateFailedPostAttempt
    \/ RemoveFailedPost
    \/ AdvanceFine

\* the failed-post API of CacheManager, called in any order on one record at a time
SpecApi == Init /\ [][NextApi]_vars

\* ------------------------------------------- GlobalPublisher, PublishingEngine
\* what adapter.post_content does: returns success, returns a failure, raises
Outcomes == {"ok", "fail", "raise"}

\* the error of a failed retry: result.error of a returned failure, str(e) of
\* an exception, here one with an empty message
RetryError(outcome) == IF outcome = "fail" THEN "rejected" ELSE NoError

\* one pass of the loop of GlobalPublisher.publish_content (not dry-run)
PublishStep ==
    /\ n_artifacts < Len(Titles)
    /\ \E platform \in Platforms, valid \in BOOLEAN, outcome \in Outcomes,
          error \in FirstErrors, reads \in ClockReads(4) :
        LET content == Artifact(platform, Titles[n_artifacts + 1], valid)
            step == [NoOp EXCEPT !.op = "publish", !.title = content.title,
                                 !.valid = content.valid]
        IN  IF SkipsDelivery(content)
            THEN \* "Content validation failed": no delivery, nothing saved
                 /\ last' = [step EXCEPT !.outcome = "skipped"]
                 /\ UNCHANGED <<clock, failed_files, delivered, retries_recorded>>
            ELSE /\ delivered' = [delivered EXCEPT ![content.title] = @ + 1]
                 /\ IF outcome = "ok"
                    THEN /\ last' = [step EXCEPT !.outcome = outcome, !.ret = TRUE]
                         /\ UNCHANGED <<clock, failed_files, retries_recorded>>
                    ELSE /\ failed_files' =
                               save_failed_post(failed_files, platform, content, error, reads)
                         /\ retries_recorded' = SavedCount(FailedId(platform, reads[4]))
                         /\ clock' = reads[4]
                         /\ last' = [step EXCEPT !.outcome = outcome,
                                                 !.id = FailedId(platform, reads[4]),
                                                 !.error = error,
                                                 !.saves = 1]
    /\ n_artifacts' = n_artifacts + 1
    /\ UNCHANGED <<retry_ready, sweeping, retried_ok, calc>>
    /\ UNCHANGED cache_vars
    /\ UNCHANGED run_vars

\* one pass of the loop of PublishingEngine.publish_content
EnginePublishStep ==
    /\ n_artifacts < Len(Titles)
    /\ \E platform \in Platforms, valid \in BOOLEAN, outcome \in Outcomes :
        LET content == Artifact(platform, Titles[n_artifacts + 1], valid)
            step == [NoOp EXCEPT !.op = "engine_publish", !.title = content.title,
                                 !.valid = content.valid]
        IN  IF SkipsDelivery(content)
            THEN /\ last' = [step EXCEPT !.outcome = "skipped"]
                 /\ UNCHANGED delivered
            ELSE /\ delivered' = [delivered EXCEPT ![content.title] = @ + 1]
                 /\ last' = [step EXCEPT !.outcome = outcome, !.ret = (outcome = "ok")]
    /\ n_artifacts' = n_artifacts + 1
    /\ UNCHANGED <<clock, failed_files, retry_ready, sweeping, retried_ok,
                   retries_recorded, calc>>
    /\ UNCHANGED cache_vars
    /\ UNCHANGED run_vars

\* GlobalPublisher.retry_failed_posts up to its loop: get_retry_ready_posts
SweepStart ==
    /\ ~sweeping
    /\ n_artifacts = Len(Titles)
    /\ \E listing \in Orderings({post \in load_failed_posts : IsRetryReady(post, clock)}) :
        /\ retry_ready' = listing
        /\ sweeping' = (listing # <<>>)
    /\ last' = [NoOp EXCEPT !.op = "list"]
    /\ UNCHANGED <<clock, failed_files, delivered, retried_ok, n_artifacts,
                   retries_recorded, calc>>
    /\ UNCHANGED cache_vars
    /\ UNCHANGED run_vars

\* one pass of the loop of GlobalPublisher.retry_failed_posts
SweepStep ==
    /\ sweeping
    /\ retry_ready # <<>>
    /\ LET failed_post == Head(retry_ready)
           title == failed_post.content.title
           failed_id == FailedId(failed_post.platform, failed_post.created_at)
           found == failed_id \in DOMAIN failed_files
       IN  /\ delivered[title] < MaxDeliver
           /\ delivered' = [delivered EXCEPT ![title] = @ + 1]
           /\ \E outcome \in Outcomes, reads \in ClockReads(2) :
               LET error == RetryError(outcome) IN
               /\ last' = [NoOp EXCEPT !.op = "retry",
                                       !.id = failed_id,
                                       !.title = title,
                                       !.outcome = outcome,
                                       !.error = error,
                                       !.ret = found]
               /\ IF outcome = "ok"
                  THEN /\ failed_files' = remove_failed_post(failed_files, failed_id)
                       /\ retries_recorded' = RemovedCount(failed_id)
                       /\ retried_ok' = retried_ok \cup {title}
                       /\ UNCHANGED clock
                  ELSE /\ failed_files' =
                             update_failed_post_attempt(failed_files, failed_id, error, reads)
                       /\ retries_recorded' = UpdatedCount(failed_id)
                       /\ clock' = IF found THEN reads[2] ELSE clock
                       /\ UNCHANGED retried_ok
    /\ retry_ready' = Tail(retry_ready)
    /\ sweeping' = (Tail(retry_ready) # <<>>)
    /\ UNCHANGED <<n_artifacts, calc>>
    /\ UNCHANGED cache_vars
    /\ UNCHANGED run_vars

\* time passes between two steps, once the publish run has handed over its
\* artifacts: to one second before a deadline, or to the deadline
Advance ==
    /\ n_artifacts = Len(Titles)
    /\ AdvanceTo({0 - TicksPerSec, 0})

Next ==
    \/ PublishStep
    \/ EnginePublishStep
    \/ SweepStart
    \/ SweepStep
    \/ Advance

\* the program: publish runs and retry sweeps, with time passing
Spec == Init /\ [][Next]_vars

\* ------------------------------------------ _calculate_next_retry, alone
\* bounds of its inputs
MaxCalcAttempt == 8
MaxCalcNow == 6

InitBackoff ==
    /\ clock = 0
    /\ failed_files = <<>>
    /\ retry_ready = <<>>
    /\ sweeping = FALSE
    /\ delivered = [t \in SeqToSet(Titles) |-> 0]
    /\ retried_ok = {}
    /\ n_artifacts = 0
    /\ retries_recorded = <<>>
    /\ last = NoOp
    /\ \E n \in 1..MaxCalcAttempt, t \in 0..MaxCalcNow :
        calc = [attempt_count |-> n, now |-> t, next_retry |-> 0 - 1]
    /\ InitCache
    /\ InitRun

\* CacheManager._calculate_next_retry(attempt_count), the clock reading calc.now
CalculateNextRetry ==
    /\ calc.next_retry = 0 - 1
    /\ calc' = [calc EXCEPT !.next_retry = calculate_next_retry(calc.attempt_count, calc.now)]
    /\ UNCHANGED <<clock, failed_files, retry_ready, sweeping, delivered, retried_ok,
                   n_artifacts, retries_recorded, last>>
    /\ UNCHANGED cache_vars
    /\ UNCHANGED run_vars

NextBackoff == CalculateNextRetry

SpecBackoff == InitBackoff /\ [][NextBackoff]_vars

\* ------------------------------------------- the cache API of CacheManager
\* Each cache call decides on one reading of the clock; time passes between
\* the calls.
\* CacheManager.cache_content_dna(content, dna, ttl_hours)
CacheContentDna ==
    /\ n_puts < MaxPuts
    /\ \E content \in Contents, dna \in Dnas, ttl_hours \in TTLs :
        LET cache_key == get_cache_key(content)
        IN  /\ dna_files' =
                 (cache_key :> dna_cache_data(cache_key, dna, ttl_hours, clock)) @@ dna_files
            /\ memory_cache' =
                 (MemoryKey(cache_key) :> dna_cache_entry(cache_key, dna, ttl_hours, clock))
                     @@ memory_cache
            /\ latest_dna' =
                 (cache_key :> [data       |-> dna,
                                ttl_hours  |-> ttl_hours,
                                expires_at |-> clock + ttl_hours * Hour]) @@ latest_dna
            /\ got' = [NoGet EXCEPT !.op = "put_dna", !.key = cache_key]
    /\ n_puts' = n_puts + 1
    /\ UNCHANGED <<clock, content_files, latest_content>>
    /\ UNCHANGED retry_vars
    /\ UNCHANGED run_vars

\* CacheManager.get_cached_dna(content)
GetCachedDna ==
    /\ \E content \in Contents :
        LET r == get_cached_dna(memory_cache, dna_files, content, clock)
        IN  /\ memory_cache' = r.memory
            /\ dna_files' = r.files
            /\ got' = [NoGet EXCEPT !.op = "get_dna",
                                    !.key = get_cache_key(content),
                                    !.ret = r.ret,
                                    !.tier = r.tier]
    /\ UNCHANGED <<clock, content_files, latest_dna, latest_content, n_puts>>
    /\ UNCHANGED retry_vars
    /\ UNCHANGED run_vars

\* CacheManager.cache_platform_content(content_dna_key, platform, content, ttl_hours)
CachePlatformContent ==
    /\ n_puts < MaxPuts
    /\ \E source \in Contents, platform \in Platforms, ttl_hours \in TTLs :
        LET content_dna_key == get_cache_key(source)
            content == Artifact(platform, Titles[1], TRUE)
            cache_key == ContentKey(platform, content_dna_key)
        IN  /\ content_files' =
                 (cache_key :>
                     content_cache_data(content_dna_key, platform, content, ttl_hours, clock))
                     @@ content_files
            /\ latest_content' =
                 (cache_key :> [data       |-> content,
                                ttl_hours  |-> ttl_hours,
                                expires_at |-> clock + ttl_hours * Hour]) @@ latest_content
            /\ got' = [NoGet EXCEPT !.op = "put_content",
                                    !.key = content_dna_key,
                                    !.platform = platform]
    /\ n_puts' = n_puts + 1
    /\ UNCHANGED <<clock, memory_cache, dna_files, latest_dna>>
    /\ UNCHANGED retry_vars
    /\ UNCHANGED run_vars

\* CacheManager.get_cached_platform_content(content_dna_key, platform)
GetCachedPlatformContent ==
    /\ \E source \in Contents, platform \in Platforms :
        LET content_dna_key == get_cache_key(source)
            r == get_cached_platform_content(content_files, content_dna_key, platform, clock)
        IN  /\ content_files' = r.files
            /\ got' = [NoGet EXCEPT !.op = "get_content",
                                    !.key = content_dna_key,
                                    !.platform = platform,
                                    !.ret = r.ret,
                                    !.tier = r.tier]
    /\ UNCHANGED <<clock, memory_cache, dna_files, latest_dna, latest_content, n_puts>>
    /\ UNCHANGED retry_vars
    /\ UNCHANGED run_vars

\* CacheManager.cleanup_expired_cache(): now is read once
CleanupExpiredCache ==
    /\ memory_cache' = Keep(memory_cache, clock)
    /\ dna_files' = Keep(dna_files, clock)
    /\ content_files' = Keep(content_files, clock)
    /\ got' = [NoGet EXCEPT !.op = "cleanup",
                            !.removed = Cardinality(ExpiredKeys(memory_cache, clock))
                                        + Cardinality(ExpiredKeys(dna_files, clock))
                                        + Cardinality(ExpiredKeys(content_files, clock))]
    /\ UNCHANGED <<clock, latest_dna, latest_content, n_puts>>
    /\ UNCHANGED retry_vars
    /\ UNCHANGED run_vars

\* CacheManager(cache_dir) constructed anew on the same directory: the memory
\* cache starts empty, the files stay
Restart ==
    /\ memory_cache # <<>>
    /\ memory_cache' = <<>>
    /\ got' = [NoGet EXCEPT !.op = "restart"]
    /\ UNCHANGED <<clock, dna_files, content_files, latest_dna, latest_content, n_puts>>
    /\ UNCHANGED retry_vars
    /\ UNCHANGED run_vars

\* the expiry times held in the two tiers
Expiries ==
    {memory_cache[k].expires_at : k \in DOMAIN memory_cache}
        \cup {dna_files[k].expires_at : k \in {x \in DOMAIN dna_files : Parses(dna_files[x])}}
        \cup {content_files[k].expires_at :
                 k \in {x \in DOMAIN content_files : Parses(content_files[x])}}

\* time passes between two cache calls: to the tick before an expiry, to the
\* expiry, or to the tick after it
AdvanceCache ==
    /\ \E d \in Expiries, e \in {0 - 1, 0, 1} : d + e > clock /\ clock' = d + e
    /\ got' = NoGet
    /\ UNCHANGED <<memory_cache, dna_files, content_files, latest_dna, latest_content,
                   n_puts>>
    /\ UNCHANGED retry_vars
    /\ UNCHANGED run_vars

NextCache ==
    \/ CacheContentDna
    \/ GetCachedDna
    \/ CachePlatformContent
    \/ GetCachedPlatformContent
    \/ CleanupExpiredCache
    \/ Restart
    \/ AdvanceCache

\* the cache API of one CacheManager, called in any order, with restarts
SpecCache == Init /\ [][NextCache]_vars

\* ---------------------------------- two CacheManagers on one cache directory
\* cache_content_dna run by a second CacheManager on the same directory: the
\* file is written, the memory cache of the first manager is not touched
OtherCacheContentDna ==
    /\ n_puts < MaxPuts
    /\ \E content \in Contents, dna \in Dnas, ttl_hours \in TTLs :
        LET cache_key == get_cache_key(content)
        IN  /\ dna_files' =
                 (cache_key :> dna_cache_data(cache_key, dna, ttl_hours, clock)) @@ dna_files
            /\ latest_dna' =
                 (cache_key :> [data       |-> dna,
                                ttl_hours  |-> ttl_hours,
                                expires_at |-> clock + ttl_hours * Hour]) @@ latest_dna
            /\ got' = [NoGet EXCEPT !.op = "put_dna_other", !.key = cache_key]
    /\ n_puts' = n_puts + 1
    /\ UNCHANGED <<clock, memory_cache, content_files, latest_content>>
    /\ UNCHANGED retry_vars
    /\ UNCHANGED run_vars

NextTiers ==
    \/ CacheContentDna
    \/ OtherCacheContentDna
    \/ GetCachedDna
    \/ CleanupExpiredCache
    \/ Restart
    \/ AdvanceCache

\* the DNA cache of one CacheManager, a second manager writing to its directory
SpecTiers == Init /\ [][NextTiers]_vars

\* ------------------------------------------------- failing file writes
\* what a failed open(cache_file, 'w') / json.dump leaves: the old file when
\* open raised, a truncated file when the write raised
FailedWrite(files, cache_key) ==
    {files, (cache_key :> Unparseable) @@ files}

\* cache_content_dna whose file write raises: the exception leaves the method
\* before the memory cache is written
CacheContentDnaFails ==
    /\ \E content \in Contents :
        /\ dna_files' \in FailedWrite(dna_files, get_cache_key(content))
        /\ got' = [NoGet EXCEPT !.op = "put_dna_failed", !.key = get_cache_key(content)]
    /\ UNCHANGED <<clock, memory_cache, content_files, latest_dna, latest_content, n_puts>>
    /\ UNCHANGED retry_vars
    /\ UNCHANGED run_vars

\* cache_platform_content whose file write raises
CachePlatformContentFails ==
    /\ \E source \in Contents, platform \in Platforms :
        /\ content_files' \in
               FailedWrite(content_files, ContentKey(platform, get_cache_key(source)))
        /\ got' = [NoGet EXCEPT !.op = "put_content_failed",
                                !.key = get_cache_key(source),
                                !.platform = platform]
    /\ UNCHANGED <<clock, memory_cache, dna_files, latest_dna, latest_content, n_puts>>
    /\ UNCHANGED retry_vars
    /\ UNCHANGED run_vars

NextFaults ==
    \/ CacheContentDna
    \/ CacheContentDnaFails
    \/ GetCachedDna
    \/ CachePlatformContent
    \/ CachePlatformContentFails
    \/ GetCachedPlatformContent
    \/ CleanupExpiredCache
    \/ Restart

\* the cache API of one CacheManager whose file writes may fail, called in any
\* order at one instant: the entries are expired or not by the ttl of their put
SpecFaults == Init /\ [][NextFaults]_vars

\* ----------------------------------------------- GlobalPublisher, one run
\* main up to generate_platform_content: a new run, after none or after a run
\* that ended before publishing
StartGenerate ==
    /\ run.phase \in {"idle", "previewed", "exited"}
    /\ run.runs < MaxRuns
    /\ run' = [NoRun EXCEPT !.phase = "generate", !.runs = run.runs + 1, !.calls = run.calls]
    /\ UNCHANGED <<clock, retry_vars, cache_vars, rec, side_vars>>

\* what the environment may do in the pass for a platform
BehavioursOf(platform) ==
    IF platform \in TakesApiKey THEN GenBehaviours
    ELSE {[fault |-> "generate", llm |-> "none"]}

\* one pass of the loop of GlobalPublisher.generate_platform_content
GenerateStep ==
    /\ run.phase = "generate"
    /\ run.pos < Len(Requested)
    /\ LET platform == Requested[run.pos + 1]
       IN  IF platform \notin KnownPlatforms
           THEN \* "Unknown platform": continue
                run' = [run EXCEPT !.pos = @ + 1,
                                   !.raw = <<>>,
                                   !.result = <<>>,
                                   !.seen = (platform :> [fault |-> "unknown", llm |-> "none"]) @@ @]
           ELSE \E behaviour \in BehavioursOf(platform) :
                LET r == generate_one(platform, behaviour)
                IN  IF r.raised # "" /\ ~Caught(r.raised)
                    THEN run' = [run EXCEPT !.phase = "aborted"]
                    ELSE run' = [run EXCEPT
                                   !.pos = @ + 1,
                                   !.seen = (platform :> behaviour) @@ @,
                                   !.raw = r.raw,
                                   !.result = r.result,
                                   !.calls = [@ EXCEPT ![platform] = @ + r.calls],
                                   !.generated = IF r.content # <<>>
                                                 THEN (platform :> r.content[1]) @@ @ ELSE @,
                                   !.order = IF r.content # <<>>
                                             THEN Append(@, platform) ELSE @]
    /\ UNCHANGED <<clock, retry_vars, cache_vars, rec, side_vars>>

\* main after generate_platform_content: sys.exit(1) when nothing was
\* generated, the end of the run in preview mode, publish_content otherwise
EndGenerate ==
    /\ run.phase = "generate"
    /\ run.pos = Len(Requested)
    /\ \E mode \in {"preview", "publish"} :
        run' = [run EXCEPT !.pos = 0,
                           !.phase = IF run.order = <<>> THEN "exited"
                                     ELSE IF mode = "preview" THEN "previewed"
                                     ELSE "publish"]
    /\ UNCHANGED <<clock, retry_vars, cache_vars, rec, side_vars>>

\* what adapter.post_content can do: an adapter without the method raises
PostOutcomes(platform) == IF platform \in HasPostContent THEN Outcomes ELSE {"raise"}

\* one pass of the loop of GlobalPublisher.publish_content (not dry-run) over
\* the artifacts of the run
RunPublishStep ==
    /\ run.phase = "publish"
    /\ run.pos < Len(run.order)
    /\ LET platform == run.order[run.pos + 1]
           content == run.generated[platform]
           step == [NoOp EXCEPT !.op = "publish", !.title = content.title,
                                !.valid = content.validation.is_valid]
           phase == IF run.pos + 1 = Len(run.order) THEN "done" ELSE "publish"
       IN  IF ~content.validation.is_valid
           THEN /\ run' = [run EXCEPT !.pos = @ + 1,
                                      !.phase = phase,
                                      !.posted = (platform :> "skipped") @@ @,
                                      !.results = (platform :> FALSE) @@ @]
                /\ last' = [step EXCEPT !.outcome = "skipped"]
                /\ UNCHANGED <<clock, failed_files, delivered, retries_recorded>>
           ELSE \E outcome \in PostOutcomes(platform), error \in FirstErrors,
                   reads \in ClockReads(4) :
                /\ delivered' = [delivered EXCEPT ![content.title] = @ + 1]
                /\ IF outcome = "ok"
                   THEN /\ run' = [run EXCEPT !.pos = @ + 1,
                                              !.phase = phase,
                                              !.posted = (platform :> outcome) @@ @,
                                              !.results = (platform :> TRUE) @@ @]
                        /\ last' = [step EXCEPT !.outcome = outcome, !.ret = TRUE]
                        /\ UNCHANGED <<clock, failed_files, retries_recorded>>
                   ELSE /\ run' = IF outcome = "raise" /\ ~Caught("Exception")
                                  THEN [run EXCEPT !.phase = "aborted"]
                                  ELSE [run EXCEPT !.pos = @ + 1,
                                                   !.phase = phase,
                                                   !.posted = (platform :> outcome) @@ @,
                                                   !.results = (platform :> FALSE) @@ @]
                        /\ failed_files' =
                              IF outcome = "raise" /\ ~Caught("Exception") THEN failed_files
                              ELSE save_failed_post(failed_files, platform, content, error, reads)
                        /\ retries_recorded' =
                              IF outcome = "raise" /\ ~Caught("Exception") THEN retries_recorded
                              ELSE SavedCount(FailedId(platform, reads[4]))
                        /\ clock' = reads[4]
                        /\ last' = [step EXCEPT !.outcome = outcome,
                                                !.id = FailedId(platform, reads[4]),
                                                !.error = error,
                                                !.saves = 1]
    /\ UNCHANGED <<retry_ready, sweeping, retried_ok, n_artifacts, calc>>
    /\ UNCHANGED <<cache_vars, rec, side_vars>>

NextRun ==
    \/ StartGenerate
    \/ GenerateStep
    \/ EndGenerate
    \/ RunPublishStep

\* runs of main: generation for the requested platforms, then publishing
SpecRun == Init /\ [][NextRun]_vars

\* ------------------------------------------- PlatformRecommender, one use
\* the LLM answers the recommendation prompt
ReceiveRecommendations ==
    /\ rec.phase = "idle"
    /\ \E llm_response \in LlmRecommendations :
        rec' = [NoRec EXCEPT !.phase = "response", !.response = <<llm_response>>]
    /\ UNCHANGED <<clock, retry_vars, cache_vars, run, side_vars>>

ParseRecommendations ==
    /\ rec.phase = "response"
    /\ LET r == parse_recommendations(rec.response[1])
       IN  rec' = [rec EXCEPT !.phase = IF r.raised = "" THEN "parsed" ELSE "raised",
                              !.raised = r.raised,
                              !.recommendations = r.ret]
    /\ UNCHANGED <<clock, retry_vars, cache_vars, run, side_vars>>

GetPlatformsToGenerate ==
    /\ rec.phase = "parsed"
    /\ rec' = [rec EXCEPT !.to_generate = <<get_platforms_to_generate(rec.recommendations)>>]
    /\ UNCHANGED <<clock, retry_vars, cache_vars, run, side_vars>>

GetSkippedPlatforms ==
    /\ rec.phase = "parsed"
    /\ rec' = [rec EXCEPT !.skipped = <<get_skipped_platforms(rec.recommendations)>>]
    /\ UNCHANGED <<clock, retry_vars, cache_vars, run, side_vars>>

NextRecommend ==
    \/ ReceiveRecommendations
    \/ ParseRecommendations
    \/ GetPlatformsToGenerate
    \/ GetSkippedPlatforms

\* the recommender applied to the responses of the LLM
SpecRecommend == Init /\ [][NextRecommend]_vars

\* ----------------------------------------- HackerNewsValidator, one use
\* a title and a profile are handed to the validator
ReceiveTitle ==
    /\ hn.phase = "idle"
    /\ \E rules \in MaxLengthRules :
       \E length \in TitleLengths(max_length_of(rules)),
          show_hn \in BOOLEAN, forbidden \in BOOLEAN, emoji \in BOOLEAN :
            hn' = [NoValidation EXCEPT
                     !.phase = "received",
                     !.title = <<HnTitle(length, show_hn, forbidden, emoji)>>,
                     !.rules = rules]
    /\ UNCHANGED <<clock, retry_vars, cache_vars, run, rec, thread, conc>>

\* HackerNewsValidator.validate(content)
Validate ==
    /\ hn.phase = "received"
    /\ hn' = [hn EXCEPT !.phase = "validated",
                        !.result = <<validate(hn.title[1], hn.rules)>>]
    /\ UNCHANGED <<clock, retry_vars, cache_vars, run, rec, thread, conc>>

NextValidate == ReceiveTitle \/ Validate

\* the validator applied to titles around the length limit
SpecValidate == Init /\ [][NextValidate]_vars

\* ------------------------------------------- a Twitter thread, delivered
\* GlobalPublisher.publish_content for the thread: post_content, and
\* save_failed_post when it reports a failure
ThreadPublish ==
    /\ thread.phase = "new"
    /\ \E fail_at \in 0..MaxTweets, error \in FirstErrors, reads \in ClockReads(4) :
        LET r == post_content(thread.accepted, fail_at)
            content == Artifact("twitter", Titles[1], TRUE)
        IN  /\ thread' = [thread EXCEPT
                            !.phase = IF r.success THEN "published" ELSE "failed",
                            !.accepted = r.accepted,
                            !.failed_at = IF r.success THEN <<>> ELSE <<fail_at>>]
            /\ failed_files' = IF r.success THEN failed_files
                               ELSE save_failed_post(failed_files, "twitter", content,
                                                     error, reads)
            /\ clock' = IF r.success THEN clock ELSE reads[4]
    /\ UNCHANGED <<retry_ready, sweeping, delivered, retried_ok, n_artifacts,
                   retries_recorded, calc, last>>
    /\ UNCHANGED <<cache_vars, run, rec, hn, conc>>

\* GlobalPublisher.retry_failed_posts for the record of the thread:
\* get_retry_ready_posts, post_content, then remove_failed_post or
\* update_failed_post_attempt under the id rebuilt from created_at
ThreadRetry ==
    /\ thread.phase = "failed"
    /\ thread.retries < MaxSweeps
    /\ \E failed_post \in {post \in load_failed_posts : IsRetryReady(post, clock)},
          fail_at \in 0..MaxTweets, reads \in ClockReads(2) :
        LET r == post_content(thread.accepted, fail_at)
            failed_id == FailedId(failed_post.platform, failed_post.created_at)
            found == failed_id \in DOMAIN failed_files
            files == IF r.success THEN remove_failed_post(failed_files, failed_id)
                     ELSE update_failed_post_attempt(failed_files, failed_id, "rejected", reads)
        IN  /\ failed_files' = files
            /\ thread' = [thread EXCEPT
                            !.phase = IF files = <<>> THEN "published" ELSE "failed",
                            !.accepted = r.accepted,
                            !.retries = @ + 1]
            /\ clock' = IF ~r.success /\ found THEN reads[2] ELSE clock
    /\ UNCHANGED <<retry_ready, sweeping, delivered, retried_ok, n_artifacts,
                   retries_recorded, calc, last>>
    /\ UNCHANGED <<cache_vars, run, rec, hn, conc>>

\* time passes until the record of the thread is due
ThreadAdvance ==
    /\ thread.phase = "failed"
    /\ AdvanceTo({0})

NextThread ==
    \/ ThreadPublish
    \/ ThreadRetry
    \/ ThreadAdvance

\* a Twitter thread published once and retried by the sweeps
SpecThread == Init /\ [][NextThread]_vars

\* ------------------------------------------- concurrent retry sweeps
\* retry_failed_posts up to its loop, by one of the sweeps: the files are
\* loaded one by one, a file that does not parse is unlinked
SweepList(p) ==
    /\ conc.pc[p] = "idle"
    /\ conc.lists < MaxSweeps
    /\ failed_files # <<>>
    /\ LET loaded == Loadable(failed_files)
           ready == {post \in {LoadFailedPost(loaded[id]) : id \in DOMAIN loaded} :
                        IsRetryReady(post, clock)}
       IN  /\ failed_files' = loaded
           /\ \E listing \in Orderings(ready) :
               conc' = [conc EXCEPT
                          !.pc[p] = IF listing = <<>> THEN "idle" ELSE "deliver",
                          !.listed[p] = listing,
                          !.lists = @ + 1,
                          !.torn = IF loaded # failed_files THEN "discarded" ELSE @]
    /\ UNCHANGED <<clock, retry_ready, sweeping, delivered, retried_ok, n_artifacts,
                   retries_recorded, calc, last>>
    /\ UNCHANGED <<cache_vars, run, rec, hn, thread>>

\* adapter.post_content of the retry: on success remove_failed_post, on a
\* failure update_failed_post_attempt is entered
SweepDeliver(p) ==
    /\ conc.pc[p] = "deliver"
    /\ LET failed_post == Head(conc.listed[p])
           failed_id == FailedId(failed_post.platform, failed_post.created_at)
       IN  \E outcome \in Outcomes :
            IF outcome = "ok"
            THEN /\ failed_files' = remove_failed_post(failed_files, failed_id)
                 /\ conc' = [conc EXCEPT !.pc[p] = "idle", !.listed[p] = <<>>]
            ELSE /\ conc' = [conc EXCEPT !.pc[p] = "update"]
                 /\ UNCHANGED failed_files
    /\ UNCHANGED <<clock, retry_ready, sweeping, delivered, retried_ok, n_artifacts,
                   retries_recorded, calc, last>>
    /\ UNCHANGED <<cache_vars, run, rec, hn, thread>>

\* update_failed_post_attempt up to its write: exists(), json.load, the new
\* attempt_count, last_attempt, error and next_retry
UpdateLoad(p) ==
    /\ conc.pc[p] = "update"
    /\ LET failed_post == Head(conc.listed[p])
           failed_id == FailedId(failed_post.platform, failed_post.created_at)
       IN  IF failed_id \notin DOMAIN failed_files
           THEN \* return False
                /\ conc' = [conc EXCEPT !.pc[p] = "idle", !.listed[p] = <<>>]
                /\ UNCHANGED clock
           ELSE IF ~Parses(failed_files[failed_id])
           THEN \* json.load raises: return False
                /\ conc' = [conc EXCEPT !.pc[p] = "idle", !.listed[p] = <<>>,
                                        !.torn = IF @ = "none" THEN "read" ELSE @]
                /\ UNCHANGED clock
           ELSE /\ failed_files[failed_id].attempt_count < MaxAttempts
                /\ \E reads \in ClockReads(2) :
                    /\ conc' = [conc EXCEPT
                                  !.pc[p] = "open",
                                  !.data[p] = <<updated_data(failed_files[failed_id],
                                                             "rejected", reads)>>]
                    /\ clock' = reads[2]
    /\ UNCHANGED <<failed_files, retry_ready, sweeping, delivered, retried_ok,
                   n_artifacts, retries_recorded, calc, last>>
    /\ UNCHANGED <<cache_vars, run, rec, hn, thread>>

\* open(failed_file, 'w'): the file is created or truncated
UpdateOpen(p) ==
    /\ conc.pc[p] = "open"
    /\ failed_files' = (conc.data[p][1].id :> Unparseable) @@ failed_files
    /\ conc' = [conc EXCEPT !.pc[p] = "dump"]
    /\ UNCHANGED <<clock, retry_ready, sweeping, delivered, retried_ok, n_artifacts,
                   retries_recorded, calc, last>>
    /\ UNCHANGED <<cache_vars, run, rec, hn, thread>>

\* json.dump and the close of the file, return True; the data goes to the
\* file opened, which is in the directory no more when it was unlinked
UpdateDump(p) ==
    /\ conc.pc[p] = "dump"
    /\ LET data == conc.data[p][1]
       IN  failed_files' = IF data.id \in DOMAIN failed_files
                           THEN [failed_files EXCEPT ![data.id] = data]
                           ELSE failed_files
    /\ conc' = [conc EXCEPT !.pc[p] = "idle", !.listed[p] = <<>>, !.data[p] = <<>>,
                            !.completed = @ + 1]
    /\ UNCHANGED <<clock, retry_ready, sweeping, delivered, retried_ok, n_artifacts,
                   retries_recorded, calc, last>>
    /\ UNCHANGED <<cache_vars, run, rec, hn, thread>>

\* time passes, while no sweep is under way, until the record is due
SweepAdvance ==
    /\ \A p \in Sweepers : conc.pc[p] = "idle"
    /\ AdvanceTo({0})

NextSweeps ==
    \/ SaveFailedPost
    \/ SweepAdvance
    \/ \E p \in Sweepers : SweepList(p)
    \/ \E p \in Sweepers : SweepDeliver(p)
    \/ \E p \in Sweepers : UpdateLoad(p)
    \/ \E p \in Sweepers : UpdateOpen(p)
    \/ \E p \in Sweepers : UpdateDump(p)

\* one failed-post record and two retry sweeps whose file operations interleave
SpecSweeps == Init /\ [][NextSweeps]_vars

\* ------------------------------------------------------------ the claims
\* a listed FailedPost is the stored record d
SamePost(post, d) ==
    /\ post.platform = d.platform
    /\ post.content.title = d.content.title
    /\ post.attempt_count = d.attempt_count
    /\ post.created_at = d.created_at
    /\ post.next_retry = d.next_retry

Listed(d) == \E i \in 1..Len(retry_ready) : SamePost(retry_ready[i], d)

Stored == {failed_files[id] : id \in DOMAIN failed_files}

\* C1: get_retry_ready_posts, evaluated at time now, returns exactly the stored
\* records with attempt_count < max_retries and now >= next_retry, each once: a
\* record with next_retry = now is listed, one with next_retry = now + 1 second
\* is not, and one with attempt_count >= max_retries is never listed.
C1_RetryReadyExact ==
    last.op = "list" =>
        /\ \A d \in Stored :
             Listed(d) <=> (d.attempt_count < d.max_retries /\ d.next_retry <= clock)
        /\ \A i \in 1..Len(retry_ready) : \E d \in Stored : SamePost(retry_ready[i], d)
        /\ \A i, j \in 1..Len(retry_ready) : i # j => retry_ready[i] # retry_ready[j]
        /\ \A d \in Stored : d.next_retry = clock + TicksPerSec => ~Listed(d)
        /\ \A d \in Stored : d.attempt_count >= d.max_retries => ~Listed(d)

\* a listing that holds a record whose next_retry is now, and leaves out a
\* record whose next_retry is one second away
C1_Witness ==
    /\ last.op = "list"
    /\ \E d \in Stored : d.next_retry = clock /\ Listed(d)
    /\ \E d \in Stored : d.next_retry = clock + TicksPerSec /\ ~Listed(d)

\* the table of the backoff as the specification states it, in minutes
BackoffTable(n) == IF n = 1 THEN 1 ELSE IF n = 2 THEN 5 ELSE 30

\* C2: for every attempt count n >= 1 the delay of _calculate_next_retry is the
\* entry of the table (1, 5, 30 minutes) at index min(n, 3) - 1; it never
\* decreases as n grows, never resets and never exceeds 30 minutes.
C2_BackoffTable ==
    calc.next_retry # 0 - 1 =>
        LET delay == calc.next_retry - calc.now
        IN  /\ delay = BackoffTable(calc.attempt_count) * Minute
            /\ delay <= 30 * Minute
            /\ \A m \in 1..calc.attempt_count : delay_minutes(m) * Minute <= delay
            /\ calc.attempt_count >= 3 => delay = 30 * Minute

\* the delay computed for attempt count 4, past the end of the table
C2_Witness ==
    /\ calc.attempt_count = 4
    /\ calc.next_retry = calc.now + 30 * Minute

\* C3: save_failed_post creates a record with attempt_count = 1 and next_retry
\* = the time of the call + 1 minute (the call lasting less than a second); so
\* while the record is neither updated nor removed, get_retry_ready_posts does
\* not return it at any time before created_at + 1 minute and returns it at
\* created_at + 61 seconds and later.
C3_NewRecordFirstRetry ==
    /\ last.op = "save" =>
         /\ last.id \in DOMAIN failed_files
         /\ failed_files[last.id].attempt_count = 1
         /\ failed_files[last.id].next_retry - Minute >= failed_files[last.id].created_at
         /\ failed_files[last.id].next_retry - Minute <= clock
    /\ last.op = "list" =>
         \A d \in Stored :
             d.attempt_count = 1 =>
                 /\ clock < d.created_at + Minute => ~Listed(d)
                 /\ clock >= d.created_at + Minute + TicksPerSec => Listed(d)

\* the new record, listed 61 seconds after its creation
C3_Witness ==
    /\ last.op = "list"
    /\ \E d \in Stored :
         /\ d.attempt_count = 1
         /\ clock = d.created_at + Minute + TicksPerSec
         /\ Listed(d)

\* the steps that call update_failed_post_attempt
IsUpdate(l) == l.op = "update" \/ (l.op = "retry" /\ l.outcome # "ok")

\* C4: update_failed_post_attempt on a stored record raises attempt_count by
\* exactly 1, sets last_attempt to now, replaces error only when a new error is
\* supplied, sets next_retry = now + backoff(new attempt_count) and returns
\* True; platform, content, created_at and max_retries of the record and all
\* other records are unchanged.  For an id that is not stored it returns False
\* and changes no record.
C4_UpdateAttempt ==
    [][IsUpdate(last') =>
        IF last'.id \in DOMAIN failed_files
        THEN LET old == failed_files[last'.id]
                 new == failed_files'[last'.id]
             IN  /\ last'.ret
                 /\ DOMAIN failed_files' = DOMAIN failed_files
                 /\ \A id \in DOMAIN failed_files \ {last'.id} :
                      failed_files'[id] = failed_files[id]
                 /\ new.attempt_count = old.attempt_count + 1
                 /\ new.last_attempt >= clock /\ new.last_attempt <= clock'
                 /\ new.error = IF last'.error # NoError THEN last'.error ELSE old.error
                 /\ \E now \in new.last_attempt..clock' :
                      new.next_retry = now + BackoffTable(new.attempt_count) * Minute
                 /\ new.platform = old.platform
                 /\ new.content = old.content
                 /\ new.created_at = old.created_at
                 /\ new.max_retries = old.max_retries
                 /\ new.id = old.id
        ELSE /\ ~last'.ret
             /\ failed_files' = failed_files]_vars

\* a failed retry without an error message has been recorded on one of two
\* stored records
C4_Witness ==
    /\ IsUpdate(last)
    /\ last.ret
    /\ last.error = NoError
    /\ Cardinality(DOMAIN failed_files) = 2
    /\ failed_files[last.id].attempt_count = 2

\* C5: when the re-delivery of a retry-ready record succeeds in the retry
\* sweep, the record is deleted from storage (and so is never listed or
\* delivered again).
C5_SucceededRetryRemoved ==
    \A d \in Stored : d.content.title \notin retried_ok

\* C6: a failed retry raises attempt_count, and an exhausted record is never
\* delivered again, so the deliveries of one artifact (initial publish plus
\* retries) number at most max_retries.
C6_DeliveriesBounded ==
    \A t \in DOMAIN delivered : delivered[t] <= DefaultMaxRetries

\* C7 as stated: three failed retries recorded on a new record leave
\* attempt_count = 3.
C7_ThreeRetriesLeaveThree ==
    \A id \in DOMAIN failed_files :
        retries_recorded[id] = 3 => failed_files[id].attempt_count = 3

\* C7, amended: every recorded failed retry raises the attempt_count of a new
\* record (1) by one, so after two failed retries attempt_count = 3 =
\* max_retries and get_retry_ready_posts leaves the record out even after its
\* next_retry has passed.
C7_TwoRetriesExhaust ==
    \A id \in DOMAIN failed_files :
        LET d == failed_files[id]
        IN  /\ d.attempt_count = 1 + retries_recorded[id]
            /\ retries_recorded[id] >= 2 =>
                 /\ d.attempt_count >= d.max_retries
                 /\ last.op = "list" => ~Listed(d)

\* a record with two recorded retries, left out of a listing made after its
\* next_retry
C7_Witness ==
    /\ last.op = "list"
    /\ \E id \in DOMAIN failed_files :
         /\ retries_recorded[id] = 2
         /\ failed_files[id].attempt_count = 3
         /\ failed_files[id].next_retry <= clock
         /\ ~Listed(failed_files[id])

\* C8: in publish_content every delivery failure (post_content returning
\* success = false or raising) makes exactly one save_failed_post for that
\* platform and artifact with the error of the failure, and the PublishResult
\* is a failure; a successful delivery saves nothing.
C8_FailureRouted ==
    last.op \in {"publish", "engine_publish"} =>
        /\ last.outcome \in {"fail", "raise"} =>
             /\ ~last.ret
             /\ last.saves = 1
             /\ last.id \in DOMAIN failed_files
             /\ failed_files[last.id].content.title = last.title
             /\ failed_files[last.id].error = last.error
        /\ last.outcome = "ok" => last.ret /\ last.saves = 0

\* C9: a stored failed-post record, exhausted or not, leaves storage only
\* through a remove_failed_post made for it: directly, or by the sweep after the
\* successful retry of that record.
C9_OnlyRemoveDeletes ==
    [][\A id \in DOMAIN failed_files :
          (id \notin DOMAIN failed_files'
             \/ failed_files'[id].content # failed_files[id].content) =>
          \/ last'.op = "remove" /\ last'.id = id
          \/ /\ last'.op = "retry"
             /\ last'.outcome = "ok"
             /\ last'.title = failed_files[id].content.title]_vars

\* the latest put for a key is still unexpired
Fresh(latest, k) == k \in DOMAIN latest /\ clock < latest[k].expires_at

\* C10: an entry written with ttl = 0, or with an expiry already in the past,
\* is never returned by get_cached_dna or get_cached_platform_content; an entry
\* written with a future expiry is returned by every get strictly before its
\* expiry time and by no get at or after that time.
C10_TtlCorrect ==
    /\ got.op = "get_dna" =>
         /\ got.ret = IF Fresh(latest_dna, got.key)
                      THEN <<latest_dna[got.key].data>> ELSE <<>>
         /\ got.key \in DOMAIN latest_dna /\ latest_dna[got.key].ttl_hours <= 0 =>
                got.ret = <<>>
    /\ got.op = "get_content" =>
         LET k == ContentKey(got.platform, got.key)
         IN  /\ got.ret = IF Fresh(latest_content, k)
                          THEN <<latest_content[k].data>> ELSE <<>>
             /\ k \in DOMAIN latest_content /\ latest_content[k].ttl_hours <= 0 =>
                    got.ret = <<>>

\* a DNA written with a future expiry, returned by a get one tick before it
\* expires
C10_Witness ==
    /\ got.op = "get_dna"
    /\ got.ret # <<>>
    /\ latest_dna[got.key].ttl_hours > 0
    /\ latest_dna[got.key].expires_at = clock + 1

\* C11: get_cached_dna looks in the memory cache first: an unexpired memory
\* entry is returned and the files are not consulted (they stay as they are,
\* even when the file of the key holds another value); an expired memory entry
\* is evicted; on a memory miss a file that has not expired is returned and
\* promoted into the memory cache with its expiry, so that the next get within
\* the TTL is served from memory; otherwise the get returns nothing.
C11_MemoryFirst ==
    [][got'.op = "get_dna" =>
        LET k == got'.key
            mk == MemoryKey(k)
            hit == mk \in DOMAIN memory_cache /\ clock < memory_cache[mk].expires_at
            valid == k \in DOMAIN dna_files /\ clock < dna_files[k].expires_at
        IN  /\ hit =>
                 /\ got'.ret = <<memory_cache[mk].data>>
                 /\ got'.tier = "memory"
                 /\ memory_cache' = memory_cache
                 /\ dna_files' = dna_files
            /\ ~hit /\ valid =>
                 /\ got'.ret = <<dna_files[k].dna>>
                 /\ got'.tier = "file"
                 /\ mk \in DOMAIN memory_cache'
                 /\ memory_cache'[mk].data = dna_files[k].dna
                 /\ memory_cache'[mk].expires_at = dna_files[k].expires_at
                 /\ clock' < memory_cache'[mk].expires_at
            /\ ~hit /\ ~valid =>
                 /\ got'.ret = <<>>
                 /\ mk \notin DOMAIN memory_cache']_vars

\* a get served from memory while the file of the key holds another value
C11_Witness ==
    /\ got.op = "get_dna"
    /\ got.tier = "memory"
    /\ got.key \in DOMAIN dna_files
    /\ dna_files[got.key].dna # got.ret[1]

\* C12 as stated: a put writes its entry to the memory cache and to the files,
\* also cache_platform_content, and a put whose file write fails leaves the
\* memory cache as it was.
C12_PutBothTiers ==
    [][/\ got'.op = "put_dna" =>
            /\ got'.key \in DOMAIN dna_files'
            /\ MemoryKey(got'.key) \in DOMAIN memory_cache'
       /\ got'.op = "put_content" =>
            /\ ContentKey(got'.platform, got'.key) \in DOMAIN content_files'
            /\ memory_cache' # memory_cache
       /\ got'.op \in {"put_dna_failed", "put_content_failed"} =>
            memory_cache' = memory_cache]_vars

\* C12, amended: cache_content_dna writes its entry to the file and then to the
\* memory cache, both with the same value and expiry; cache_platform_content
\* writes the file only and leaves the memory cache as it was; a put whose file
\* write fails leaves the memory cache as it was, and every value a get
\* returns is the value of the latest put that succeeded for the key.
C12_PutTiers ==
    [][/\ got'.op = "put_dna" =>
            LET k == got'.key
            IN  /\ k \in DOMAIN dna_files' /\ Parses(dna_files'[k])
                /\ dna_files'[k].dna = latest_dna'[k].data
                /\ dna_files'[k].expires_at = latest_dna'[k].expires_at
                /\ MemoryKey(k) \in DOMAIN memory_cache'
                /\ memory_cache'[MemoryKey(k)].data = latest_dna'[k].data
                /\ memory_cache'[MemoryKey(k)].expires_at = latest_dna'[k].expires_at
       /\ got'.op = "put_content" =>
            LET k == ContentKey(got'.platform, got'.key)
            IN  /\ k \in DOMAIN content_files' /\ Parses(content_files'[k])
                /\ RebuiltContent(content_files'[k].content) = latest_content'[k].data
                /\ content_files'[k].expires_at = latest_content'[k].expires_at
                /\ memory_cache' = memory_cache
       /\ got'.op \in {"put_dna_failed", "put_content_failed"} =>
            /\ memory_cache' = memory_cache
            /\ latest_dna' = latest_dna
            /\ latest_content' = latest_content
       /\ got'.op = "get_dna" /\ got'.ret # <<>> =>
            /\ got'.key \in DOMAIN latest_dna
            /\ got'.ret = <<latest_dna[got'.key].data>>
       /\ got'.op = "get_content" /\ got'.ret # <<>> =>
            /\ ContentKey(got'.platform, got'.key) \in DOMAIN latest_content
            /\ got'.ret = <<latest_content[ContentKey(got'.platform, got'.key)].data>>]_vars

\* a cache_content_dna whose write failed and truncated the file, the memory
\* cache still holding the entry of the put before it
C12_Witness ==
    /\ got.op = "put_dna_failed"
    /\ got.key \in DOMAIN dna_files
    /\ ~Parses(dna_files[got.key])
    /\ MemoryKey(got.key) \in DOMAIN memory_cache
    /\ Cardinality(DOMAIN content_files) > 0

\* the entries of a tier that cleanup_expired_cache run at time t removes
\* (Gone) and the test that it removed exactly the expired ones among the
\* entries that parse, and changed none of those it kept
Gone(before, after) == DOMAIN before \ DOMAIN after

SweptAt(before, after, t) ==
    /\ DOMAIN after \subseteq DOMAIN before
    /\ \A k \in DOMAIN before :
         Parses(before[k]) =>
             /\ k \in DOMAIN after <=> before[k].expires_at > t
             /\ k \in DOMAIN after => after[k] = before[k]

\* C13: cleanup_expired_cache run at time t removes from the memory cache and
\* from the DNA and content files every entry whose expiry is <= t, leaves in
\* place, unchanged, every well-formed entry whose expiry is > t, and returns
\* the number of memory entries and files it removed.
C13_CleanupExact ==
    [][got'.op = "cleanup" =>
        /\ SweptAt(memory_cache, memory_cache', clock)
        /\ SweptAt(dna_files, dna_files', clock)
        /\ SweptAt(content_files, content_files', clock)
        /\ got'.removed = Cardinality(Gone(memory_cache, memory_cache'))
                          + Cardinality(Gone(dna_files, dna_files'))
                          + Cardinality(Gone(content_files, content_files'))]_vars

\* a cleanup that removed an entry expiring at that instant from both tiers and
\* left an unexpired DNA file in place
C13_Witness ==
    /\ got.op = "cleanup"
    /\ got.removed >= 2
    /\ \E k \in DOMAIN latest_dna :
         /\ latest_dna[k].expires_at = clock
         /\ k \notin DOMAIN dna_files
         /\ MemoryKey(k) \notin DOMAIN memory_cache
    /\ \E k \in DOMAIN dna_files :
         Parses(dna_files[k]) /\ dna_files[k].expires_at > clock

\* the file a get reads: get_cached_platform_content always reads the file of
\* its key, get_cached_dna reads it when the memory cache has no unexpired
\* entry for the key
ReadsFile(op, key) ==
    \/ op = "get_content"
    \/ /\ op = "get_dna"
       /\ ~(/\ MemoryKey(key) \in DOMAIN memory_cache
            /\ clock < memory_cache[MemoryKey(key)].expires_at)

\* C14: a get that reads a file which does not parse returns nothing (no
\* exception reaches the caller) and removes the file, so that every later get
\* for the key misses too until a new put: no file that fails to parse is left
\* behind by a get that read it, and a get never returns a value for a key
\* without a file unless the memory cache holds one.
C14_CorruptIsMiss ==
    [][/\ got'.op = "get_dna" /\ ReadsFile("get_dna", got'.key) =>
            LET k == got'.key
            IN  /\ k \in DOMAIN dna_files /\ ~Parses(dna_files[k]) =>
                     /\ got'.ret = <<>>
                     /\ k \notin DOMAIN dna_files'
                     /\ MemoryKey(k) \notin DOMAIN memory_cache'
                /\ k \notin DOMAIN dna_files => got'.ret = <<>> /\ dna_files' = dna_files
       /\ got'.op = "get_content" =>
            LET k == ContentKey(got'.platform, got'.key)
            IN  /\ k \in DOMAIN content_files /\ ~Parses(content_files[k]) =>
                     /\ got'.ret = <<>>
                     /\ k \notin DOMAIN content_files'
                /\ k \notin DOMAIN content_files =>
                     got'.ret = <<>> /\ content_files' = content_files]_vars

\* a get_cached_dna that met a truncated file where the latest put is still
\* unexpired: it returned nothing and the file is gone
C14_Witness ==
    /\ got.op = "get_dna"
    /\ got.tier = "error"
    /\ got.ret = <<>>
    /\ got.key \in DOMAIN latest_dna
    /\ clock < latest_dna[got.key].expires_at
    /\ got.key \notin DOMAIN dna_files
    /\ MemoryKey(got.key) \notin DOMAIN memory_cache

\* C15: two successive generations for the same DNA and platform within the
\* TTL call the external generator once: the second is served from the cache.
C15_GeneratedOnce ==
    \A p \in DOMAIN run.calls : run.calls[p] <= 1

\* what the pass for a platform must give, from what happened in that pass
\* alone: an artifact when the platform is known, its adapter takes the
\* api_key and nothing was raised, valid when the LLM call gave JSON that fits
ExpectGenerated(p, behaviour) ==
    p \in KnownPlatforms /\ p \in TakesApiKey /\ behaviour.fault = "none"

ExpectValid(behaviour) == behaviour.llm \in {"json", "fenced", "newlines"}

Processed(n) == {Requested[i] : i \in 1..n}

\* C16: in generate_platform_content and publish_content a failure for one
\* platform (unknown name, exception of the generator or the validator,
\* failed or raising delivery) never aborts the run: every requested platform
\* gets its pass, and what a platform ends with depends on its own pass only.
C16_FailureIsLocal ==
    /\ run.phase # "aborted"
    /\ DOMAIN run.seen =
           IF run.phase \in {"idle", "generate"} THEN Processed(run.pos)
           ELSE SeqToSet(Requested)
    /\ \A p \in DOMAIN run.seen :
         /\ p \in DOMAIN run.generated <=> ExpectGenerated(p, run.seen[p])
         /\ p \in DOMAIN run.generated =>
                run.generated[p].validation.is_valid = ExpectValid(run.seen[p])
    /\ DOMAIN run.posted = DOMAIN run.results
    /\ run.phase = "publish" =>
           DOMAIN run.posted = {run.order[i] : i \in 1..run.pos}
    /\ run.phase = "done" => DOMAIN run.posted = DOMAIN run.generated
    /\ \A p \in DOMAIN run.posted :
         /\ run.results[p] = (run.posted[p] = "ok")
         /\ run.posted[p] = "skipped" <=> ~run.generated[p].validation.is_valid

\* a finished run: an unknown platform, a platform whose generation raised, a
\* platform whose delivery raised, and a platform that was published
C16_Witness ==
    /\ run.phase = "done"
    /\ "myspace" \in DOMAIN run.seen
    /\ "hackernews" \in DOMAIN run.seen
    /\ "twitter" \in DOMAIN run.posted /\ run.posted["twitter"] = "raise"
    /\ "devto" \in DOMAIN run.results /\ run.results["devto"]

\* every ValidationResult of the run: the one generate_content gave in the
\* last pass and the ones the artifacts carry
RunValidations ==
    {run.raw[i].validation : i \in 1..Len(run.raw)}
        \cup {run.generated[p].validation : p \in DOMAIN run.generated}

\* C17: every ValidationResult an artifact carries, the one set by
\* generate_content included, has is_valid exactly when its errors are empty.
C17_ValidationTotality ==
    \A v \in RunValidations : v.is_valid = (Len(v.errors) = 0)

\* C20: one pass of the generation loop that reaches the LLM call makes
\* exactly one completion call; when the call raises or answers with text
\* that is not JSON, _make_llm_call gives the empty result, the run goes on
\* with the next platform and no failed-post record is written.
C20_GenerationFailure ==
    [][run.phase = "generate" /\ run.pos < Len(Requested) =>
         LET p == Requested[run.pos + 1]
             behaviour == run'.seen[p]
         IN  /\ run'.phase = "generate"
             /\ run'.pos = run.pos + 1
             /\ failed_files' = failed_files
             /\ run'.calls[p] = run.calls[p] + (IF behaviour.llm = "none" THEN 0 ELSE 1)
             /\ behaviour.llm \in {"raise", "text"} => run'.result = <<Empty>>]_vars

\* a pass for twitter in a second run whose LLM call raised: nothing was
\* parsed, and the pass of the first run is the only other call
C20_Witness ==
    /\ run.phase = "generate"
    /\ run.runs = 2
    /\ run.pos = 1
    /\ run.seen["twitter"].llm = "raise"
    /\ run.result = <<Empty>>
    /\ run.calls["twitter"] = 2
    /\ failed_files = <<>>

\* the positions of a list whose recommendation has one of the fits, and the
\* k-th of them
FitPositions(recommendations, fits) ==
    {i \in 1..Len(recommendations) : recommendations[i].fit \in fits}

KthOf(positions, k) ==
    CHOOSE i \in positions : Cardinality({j \in positions : j <= i}) = k

\* C18: get_platforms_to_generate returns the platforms of exactly the
\* recommendations whose fit is strong or moderate, get_skipped_platforms
\* exactly the recommendations whose fit is skip, both in the order of the
\* list, and every call on a list gives this same result.
C18_Partition ==
    LET recs == rec.recommendations
        gen == FitPositions(recs, {"strong", "moderate"})
        skip == FitPositions(recs, {"skip"})
    IN  /\ rec.to_generate # <<>> =>
             /\ Len(rec.to_generate[1]) = Cardinality(gen)
             /\ \A k \in 1..Cardinality(gen) :
                    rec.to_generate[1][k] = recs[KthOf(gen, k)].platform
        /\ rec.skipped # <<>> =>
             /\ Len(rec.skipped[1]) = Cardinality(skip)
             /\ \A k \in 1..Cardinality(skip) :
                    rec.skipped[1][k] = recs[KthOf(skip, k)]

\* both filters applied to a parsed list with a weak fit and then a strong
\* one: one platform to generate for, nothing skipped
C18_Witness ==
    /\ rec.phase = "parsed"
    /\ Len(rec.recommendations) = 2
    /\ rec.recommendations[1].fit = "weak"
    /\ rec.recommendations[2].fit = "strong"
    /\ rec.to_generate = <<<<rec.recommendations[2].platform>>>>
    /\ rec.skipped = <<<<>>>>

\* the response is JSON that is a list of objects
IsRecommendationList(llm_response) ==
    /\ llm_response.wrap # "prose"
    /\ llm_response.doc.type = "array"
    /\ \A i \in 1..Len(llm_response.doc.items) : llm_response.doc.items[i].type = "object"

\* C19: parse_recommendations of a response that is not JSON, or is JSON that
\* is not a list of recommendation objects, does not raise and returns one
\* moderate recommendation for every platform of PLATFORM_PROFILES.
C19_ParseFallback ==
    rec.phase \in {"parsed", "raised"} /\ ~IsRecommendationList(rec.response[1]) =>
        /\ rec.raised = ""
        /\ Len(rec.recommendations) = Len(PLATFORM_PROFILES)
        /\ \A i \in 1..Len(PLATFORM_PROFILES) :
               /\ rec.recommendations[i].platform = PLATFORM_PROFILES[i]
               /\ rec.recommendations[i].fit = "moderate"

\* C24: every save_failed_post stores its record under an id no stored record
\* has: no record is overwritten, and the number of stored records grows by
\* one with each recorded failure.
C24_UniqueIds ==
    [][last'.saves = 1 =>
         /\ last'.id \notin DOMAIN failed_files
         /\ Cardinality(DOMAIN failed_files') = Cardinality(DOMAIN failed_files) + 1]_vars

\* C26: the id a record is stored under is the id the retry sweep rebuilds
\* from the record's platform and created_at.
C26_IdMatchesCreatedAt ==
    \A id \in DOMAIN failed_files :
        id = FailedId(failed_files[id].platform, failed_files[id].created_at)

\* C27: every stored failed-post record has 1 <= attempt_count <= max_retries.
C27_AttemptCountBounded ==
    \A id \in DOMAIN failed_files :
        /\ 1 <= failed_files[id].attempt_count
        /\ failed_files[id].attempt_count <= failed_files[id].max_retries

\* C28: an artifact whose validation is not valid is never delivered: both
\* publish loops report it as failed, deliver nothing and store nothing, only
\* a valid artifact is delivered by a publish loop, and the retry sweep
\* delivers only artifacts that a publish loop delivered before.
C28_InvalidNeverDelivered ==
    [][/\ last'.op \in {"publish", "engine_publish"} /\ ~last'.valid =>
              /\ delivered' = delivered
              /\ failed_files' = failed_files
              /\ last'.outcome = "skipped"
              /\ ~last'.ret
       /\ last'.op \in {"publish", "engine_publish"} /\ delivered' # delivered =>
              last'.valid
       /\ last'.op = "retry" => delivered[last'.title] >= 1]_vars

\* both artifacts handed over, the first of them invalid and never delivered,
\* the second retried by a sweep
C28_Witness ==
    /\ n_artifacts = Len(Titles)
    /\ delivered[Titles[1]] = 0
    /\ last.op = "retry"
    /\ last.title = Titles[2]
    /\ delivered[Titles[2]] >= 2

\* C29: every recommendation parse_recommendations returned is in exactly one
\* partition: its platform is among those to generate for, or it is among the
\* skipped recommendations, never both and never neither.
C29_ExactlyOnePartition ==
    rec.phase = "parsed" /\ rec.to_generate # <<>> /\ rec.skipped # <<>> =>
        \A i \in 1..Len(rec.recommendations) :
            LET r == rec.recommendations[i]
            IN  (r.platform \in SeqToSet(rec.to_generate[1]))
                    # (r \in SeqToSet(rec.skipped[1]))

\* C30: an unexpired entry of the in-process tier has the value and the expiry
\* of the latest completed put for its key, also when a second CacheManager
\* on the same directory made that put.
C30_TiersAgree ==
    \A cache_key \in DOMAIN latest_dna :
        LET memory_key == MemoryKey(cache_key)
        IN  memory_key \in DOMAIN memory_cache
                /\ Unexpired(clock, memory_cache[memory_key].expires_at) =>
                    /\ memory_cache[memory_key].data = latest_dna[cache_key].data
                    /\ memory_cache[memory_key].expires_at = latest_dna[cache_key].expires_at

\* the length errors among the errors of a result
LengthErrors(result) ==
    {i \in 1..Len(result.errors) : result.errors[i].kind = "too_long"}

\* C22: the title-length rule of the Hacker News validator reports an error
\* exactly when the title is longer than the configured maximum (60 when none
\* is configured); the error states the length and the limit and makes the
\* result invalid; an otherwise valid title 5 characters over the limit has
\* exactly one error.
C22_TitleLengthRule ==
    hn.phase = "validated" =>
        LET title == hn.title[1]
            result == hn.result[1]
            limit == IF hn.rules = <<>> THEN 60 ELSE hn.rules[1]
        IN  /\ (LengthErrors(result) # {}) <=> (title.length > limit)
            /\ title.length > limit =>
                   /\ ~result.is_valid
                   /\ \A i \in LengthErrors(result) :
                          /\ result.errors[i].length = title.length
                          /\ result.errors[i].max_length = limit
            /\ title.length = limit + 5 /\ title.show_hn /\ ~title.forbidden /\ ~title.emoji =>
                   Len(result.errors) = 1

\* a title of 65 characters with nothing else wrong, validated under a
\* profile without a max_length: one error, and the result is invalid
C22_Witness ==
    /\ hn.phase = "validated"
    /\ hn.rules = <<>>
    /\ hn.title[1] = HnTitle(65, TRUE, FALSE, FALSE)
    /\ Len(hn.result[1].errors) = 1
    /\ ~hn.result[1].is_valid

\* C21: a write to the failed-post store is atomic for a concurrent reader: no
\* load meets a record between the old and the new contents, and none
\* discards as corrupted a record that is being written.
C21_AtomicWrites ==
    conc.torn = "none"

\* C23: under concurrent sweeps every update_failed_post_attempt that
\* recorded a failed retry has raised the stored attempt_count by exactly one:
\* the count is the 1 of save_failed_post plus the number of those calls.
C23_NoLostUpdate ==
    \A id \in DOMAIN failed_files :
        Parses(failed_files[id]) =>
            failed_files[id].attempt_count = 1 + conc.completed

\* C25: the retry of a thread whose delivery failed posts no tweet again that
\* the platform accepted in an earlier attempt.
C25_NoTweetTwice ==
    \A i \in 1..MaxTweets : thread.accepted[i] <= 1

====
